---- MODULE Spec2Model ----
(***************************************************************************)
(* Observation bookkeeping of the TPE optimizer:                           *)
(*   optimizers/tpe/optimizer/models/base_tpe.py  (BaseTPE)                *)
(*   optimizers/tpe/optimizer/models/tpe.py       (TPE)                    *)
(*                                                                         *)
(* One TPE instance.  The state is the instance's fields; there is one     *)
(* action per public method: the mutators apply_knowledge_augmentation     *)
(* ("seed") and update_observations ("append"), and the reads              *)
(* get_config_candidates, compute_probability_improvement and              *)
(* observations.  A call that raises leaves the fields exactly as the      *)
(* statements executed before the raise left them; the exception reaches   *)
(* the caller and is recorded in `outcome`.  A second instance (`twin`)    *)
(* is given every call the first is given.                                 *)
(*                                                                         *)
(* numpy arrays are sequences.  Positions are 1-based here (0-based in     *)
(* numpy); `order` holds positions.  Floats are exact rationals <<n, d>>.  *)
(***************************************************************************)
EXTENDS Integers, Sequences, FiniteSets, TLC

\* ---------------------------------------------------------------- bounds
\* An append is only issued while the objective column is shorter than this.
MaxObs == 3
\* A seed input carries at most this many observations.
MaxSeed == 2

\* the generator is a counter of the draws made, modulo its period
RngPeriod == 3
RngStates == 0..(RngPeriod - 1)
\* n_ei_candidates (base_tpe.py:71): the samples one get_config_candidates call draws
n_ei_candidates == 1

\* ------------------------------------------------------- the configuration
\* config_space._hyperparameters.keys(), in iteration order (base_tpe.py:73)
HpNames == <<"x", "y">>
\* objective_name (tpe.py:33) and runtime_name (base_tpe.py:75)
ObjectiveName == "loss"
RuntimeName == "runtime"
HpSet == {HpNames[i] : i \in 1..Len(HpNames)}
\* the keys of _observations and _sorted_observations (base_tpe.py:84-89)
Keys == HpSet \cup {ObjectiveName, RuntimeName}

\* the values a caller passes: x is a dimension with two values, y one with a
\* single choice; the sets are disjoint where that costs nothing, so that a
\* value found in the wrong column shows
XVals == {0, 1}
YVals == {5}
ObjVals == {0, 1}
RtVals == {7}
ValsOf(k) ==
    IF k = ObjectiveName THEN ObjVals
    ELSE IF k = RuntimeName THEN RtVals
    ELSE IF k = "x" THEN XVals ELSE YVals
AllVals == XVals \cup YVals \cup ObjVals \cup RtVals

\* the quantile constructor argument (tpe.py:34), a fraction <<num, den>> of
\* the history: one half, and the edge where the whole history is the lower group
Quantiles == {<<1, 2>>, <<1, 1>>}

\* np.argsort(loss_vals) is called with the default kind ("quicksort"), which
\* numpy documents as not stable: the relative order of equal keys is whatever
\* the build's sort produces (introsort, or the SIMD sort on x86).  It is a
\* deterministic function of the array in one build, so the build's treatment
\* of ties is fixed at construction and unknown: "stable" keeps insertion
\* order among equal keys, "reversed" is a build that does not.
TiePolicies == {"stable", "reversed"}

VARIABLES
    quantile,             \* self._quantile
    tie_policy,           \* how this build's np.argsort orders equal keys
    observations,         \* self._observations
    sorted_observations,  \* self._sorted_observations
    order,                \* self._order  ([set, vals]: declared but unset until first assigned)
    n_lower,              \* self._n_lower
    percentile,           \* self._percentile
    mvpe_lower,           \* self._mvpe_lower ([set, vals]: the lower_vals handed to the builder)
    mvpe_upper,           \* self._mvpe_upper
    last_op,              \* the last call made: "none", "seed", "append"
    last_args,            \* what its arguments covered: [objective, dims : BOOLEAN]
    outcome,              \* how it ended: "ok" or the exception that reached the caller
    minimize,             \* self._minimize[objective_name]
    seed,                 \* the seed constructor argument: <<s>> for an int s, <<>> for None
    rng,                  \* self._rng, the state of the instance's generator
    out,                  \* what the last call returned to the caller, see NoOut
    last_ll,              \* the log-densities the two joint models gave the last score call
    twin,                 \* a second instance that is given the same calls, see TwinOf
    seed_state,           \* history of the seed calls that changed a field, see SeedHistory
    seed_k,               \* history: the observation count the last successful seed left, -1 if none
    n_appended,           \* history: the appends that returned normally
    append_fault          \* history: an append raised after it had changed a field

vars == <<quantile, tie_policy, observations, sorted_observations, order, n_lower,
          percentile, mvpe_lower, mvpe_upper, last_op, last_args, outcome,
          minimize, seed, rng, out, last_ll, twin,
          seed_state, seed_k, n_appended, append_fault>>

\* the fields of the instance the two mutators write
store == <<observations, sorted_observations, order, n_lower, percentile,
           mvpe_lower, mvpe_upper>>

\* the instance as one value: the fields above and the constructor arguments it
\* keeps
Self ==
    [observations |-> observations, sorted_observations |-> sorted_observations,
     order |-> order, n_lower |-> n_lower, percentile |-> percentile,
     mvpe_lower |-> mvpe_lower, mvpe_upper |-> mvpe_upper,
     minimize |-> minimize, rng |-> rng]

\* ------------------------------------------------------------- arithmetic
RECURSIVE GCD(_, _)
GCD(a, b) == IF b = 0 THEN a ELSE GCD(b, a % b)

\* a / b for ints a >= 0, b > 0, as the fraction in lowest terms
Div(a, b) == LET g == GCD(a, b) IN <<a \div g, b \div g>>

RatEq(p, q) == p[1] * q[2] = q[1] * p[2]

\* int(np.ceil(q * n)) for the fraction q = <<num, den>>
CeilMul(q, n) == (q[1] * n + q[2] - 1) \div q[2]

\* ---------------------------------------------------------------- arrays
\* np.append(col, v)
NpAppend(col, v) == Append(col, v)

\* whether index j comes before index i in np.argsort(vals)
Before(vals, j, i) ==
    \/ vals[j] < vals[i]
    \/ /\ vals[j] = vals[i]
       /\ IF tie_policy = "stable" THEN j < i ELSE j > i

\* np.argsort(vals): the positions of vals in ascending order of value
ArgSort(vals) ==
    LET n == Len(vals)
        Rank(i) == 1 + Cardinality({j \in 1..n : Before(vals, j, i)})
    IN [k \in 1..n |-> CHOOSE i \in 1..n : Rank(i) = k]

\* col[ord] can be evaluated: every index of ord is inside col
CanIndex(col, ord) == \A k \in 1..Len(ord) : ord[k] <= Len(col)

\* col[ord] (numpy integer-array indexing)
Reorder(col, ord) == [k \in 1..Len(ord) |-> col[ord[k]]]

Min(a, b) == IF a < b THEN a ELSE b

\* col[:n] and col[n:] for n >= 0 (numpy clips a slice bound past the end)
Take(col, n) == SubSeq(col, 1, Min(n, Len(col)))
Drop(col, n) == SubSeq(col, Min(n, Len(col)) + 1, Len(col))

\* a field that is declared in __init__ and assigned later (base_tpe.py:100-102)
Built(vals) == [set |-> TRUE, vals |-> vals]
Unset == [set |-> FALSE, vals |-> <<>>]

\* --------------------------------------------------------------- TPE policy
\* the boundary taken from the count before the observation being added
percentile_func_count_before(obs) == CeilMul(quantile, Len(obs[ObjectiveName]) - 1)

\* TPE._percentile_func: int(np.ceil(self._quantile * n_observations)).  Both
\* mutators are called with percentile_func=None, their default, so this is
\* the function that sets _n_lower.
percentile_func(obs) == CeilMul(quantile, Len(obs[ObjectiveName]))

\* TPE._calculate_order(None): the stored objective column (the seed path)
calculate_order_stored(obs) == ArgSort(obs[ObjectiveName])

\* TPE._calculate_order(results): the objective column with the candidate value
\* appended to a copy of it (the append path); results[0] is the dict of metrics
\* the ranking key with the stored runtime added to the stored losses
calculate_order_with_runtime(obs, results) ==
    LET loss == obs[ObjectiveName]
        rt == obs[RuntimeName]
        key == [i \in 1..Len(loss) |-> loss[i] + (IF i <= Len(rt) THEN rt[i] ELSE 0)]
    IN ArgSort(NpAppend(key, results[ObjectiveName]))

calculate_order_with(obs, results) ==
    ArgSort(NpAppend(obs[ObjectiveName], results[ObjectiveName]))

\* the ranking turned round for an objective that is not minimized
calculate_order_by_direction(st, results) ==
    LET vals == NpAppend(st.observations[ObjectiveName], results[ObjectiveName])
        key == [i \in 1..Len(vals) |-> IF st.minimize THEN vals[i] ELSE 0 - vals[i]]
    IN [st EXCEPT !.order = Built(ArgSort(key))]

\* TPE._calculate_order(results) as a call on the instance st: tpe.py:46 assigns
\* the permutation to self._order before returning it, and reads no field but
\* the objective column
calculate_order(st, results) ==
    [st EXCEPT !.order = Built(calculate_order_with(st.observations, results))]

\* the lower slice cut one element late
lower_vals_off_by_one(srt, nl) == [hp \in HpSet |-> Take(srt[hp], nl + 1)]

\* BaseTPE._update_parzen_estimators: the per-dimension value arrays handed to
\* _get_parzen_estimator for the lower and for the upper group.  The estimator
\* itself is the external density-model collaborator; a joint model is
\* represented by the arrays it was built from.
lower_vals(srt, nl) == [hp \in HpSet |-> Take(srt[hp], nl)]
upper_vals(srt, nl) == [hp \in HpSet |-> Drop(srt[hp], nl)]

\* ------------------------------------------------------------------ inputs
\* one observation: a value per dimension, the objective and the runtime
Rows == {r \in [Keys -> AllVals] : \A k \in Keys : r[k] \in ValsOf(k)}

Column(rows, k) == [i \in 1..Len(rows) |-> rows[i][k]]

\* A seed input is a dict of arrays.  Nothing in the call makes the caller pass
\* every key or arrays of one length, so besides the well-formed inputs
\* (defect "none") one key may be missing ("absent") or its array may be one
\* shorter ("short") or one longer ("long") than the others.
Defects ==
    {<<"none", "none">>, <<ObjectiveName, "absent">>, <<"x", "absent">>,
     <<RuntimeName, "absent">>, <<"x", "short">>, <<"x", "long">>}

SeedInput(rows, d) ==
    [k \in (IF d[2] = "absent" THEN Keys \ {d[1]} ELSE Keys) |->
        LET c == Column(rows, k) IN
        IF d[1] = k /\ d[2] = "short" THEN SubSeq(c, 1, Len(c) - 1)
        ELSE IF d[1] = k /\ d[2] = "long"
             THEN Append(c, CHOOSE v \in ValsOf(k) : \A w \in ValsOf(k) : v <= w)
        ELSE c]

SeedInputsUpTo(m) ==
    UNION {{SeedInput(rows, d) : rows \in [1..k -> Rows], d \in Defects} : k \in 0..m}

SeedInputs == SeedInputsUpTo(MaxSeed)
\* the inputs of at most MaxSeed - 1 and of at most MaxSeed - 2 observations
SeedInputsShort == SeedInputsUpTo(MaxSeed - 1)
SeedInputsBrief == SeedInputsUpTo(MaxSeed - 2)

\* every key present, all arrays of one length
WellFormed(inp) ==
    /\ DOMAIN inp = Keys
    /\ \A k \in Keys : Len(inp[k]) = Len(inp[ObjectiveName])

\* eval_config: a dict that may lack dimensions; results[0]: may lack the objective
Configs ==
    UNION {{c \in [D -> AllVals] : \A hp \in D : c[hp] \in ValsOf(hp)} : D \in SUBSET HpSet}
Results == UNION {[D -> ObjVals] : D \in SUBSET {ObjectiveName}}

\* ------------------------------------------------------------------- Init
\* The fields as __init__ leaves them (base_tpe.py:70-102, tpe.py:33-34).
Fresh ==
    [observations |-> [k \in Keys |-> <<>>],
     sorted_observations |-> [k \in Keys |-> <<>>],
     order |-> Unset,
     n_lower |-> 0,
     percentile |-> <<0, 1>>,
     mvpe_lower |-> Unset,
     mvpe_upper |-> Unset,
     minimize |-> TRUE,         \* minimize=None: every objective is minimized (line 81)
     rng |-> 0]                 \* np.random.RandomState(0)

\* a call that returns None, or that raised
NoOut == [kind |-> "none", val |-> <<>>]

\* The second instance: same config space, quantile and build, the same calls in
\* the same order, but constructed with minimize = {objective: False}, and each
\* of its appends is given another runtime value than the first instance's
\* (TwinRuntime).  `st` are its fields, `err` how its last call ended,
\* `out` what it returned.
TwinFresh == [st |-> [Fresh EXCEPT !.minimize = FALSE], err |-> "ok", out |-> NoOut]

\* the second instance after a call that ended as r
TwinAfter(r) == [st |-> r.st, err |-> r.err, out |-> NoOut]

\* the runtime the second instance's append is given where the first gets rt: a
\* different value, and not the same one from append to append
TwinRuntime(rt) == rt + 1 + Len(twin.st.observations[RuntimeName])

\* the generator that ignores the seed it is given
RandomState_unseeded(sd) == RngStates

\* np.random.RandomState(seed) (line 70): the generator states construction can
\* leave.  An int seed fixes the state; None seeds from the system's entropy.
RandomState(sd) == IF sd = <<>> THEN RngStates ELSE {sd[1] % RngPeriod}

\* the states after TPE(..., seed=sd, ...) for a seed argument of `seeds`, the
\* second instance being constructed with the same seed
Constructed(seeds) ==
    /\ quantile \in Quantiles
    /\ tie_policy \in TiePolicies
    /\ observations = Fresh.observations
    /\ sorted_observations = Fresh.sorted_observations
    /\ order = Fresh.order
    /\ n_lower = Fresh.n_lower
    /\ percentile = Fresh.percentile
    /\ mvpe_lower = Fresh.mvpe_lower
    /\ mvpe_upper = Fresh.mvpe_upper
    /\ last_op = "none"
    /\ last_args = [objective |-> TRUE, dims |-> TRUE]
    /\ outcome = "ok"
    /\ minimize = Fresh.minimize
    /\ seed \in seeds
    /\ rng \in RandomState(seed)
    /\ out = NoOut
    /\ last_ll = <<0, 0>>
    /\ \E g \in RandomState(seed) : twin = [TwinFresh EXCEPT !.st.rng = g]
    /\ seed_state = "none"
    /\ seed_k = -1
    /\ n_appended = 0
    /\ append_fault = FALSE

\* the mutators read neither the seed nor the generator: one seed stands for all
Init == Constructed({<<0>>})

\* a call's effect on the fields, and how it ended
Return(st) == [st |-> st, err |-> "ok"]
Raise(st, e) == [st |-> st, err |-> e]

\* ------------------------------------------------------------------- seed
\* the emptiness test of line 115 the wrong way round
HasDataInverted(obs) == Len(obs[ObjectiveName]) = 0

\* line 115: some objective column already holds data
HasData(obs) == Len(obs[ObjectiveName]) # 0

\* the membership test of line 117 made on the runtime name
ObjectiveMissingWrongKey(inp) == RuntimeName \notin DOMAIN inp

\* line 117: some objective is not in the input
ObjectiveMissing(inp) == ObjectiveName \notin DOMAIN inp

\* BaseTPE.apply_knowledge_augmentation(observations=inp), on the fields st
apply_knowledge_augmentation(st, inp) ==
    LET obs1 == [k \in Keys |-> IF k \in DOMAIN inp THEN inp[k] ELSE st.observations[k]]
        ord == calculate_order_stored(obs1)
        srt1 == [k \in Keys |-> IF k \in DOMAIN inp THEN Reorder(inp[k], ord)
                                ELSE st.sorted_observations[k]]
        nl == percentile_func(obs1)
        n == Len(obs1[ObjectiveName])
        \* after line 121
        st1 == [st EXCEPT !.observations = obs1, !.order = Built(ord)]
        \* after line 123
        st2 == [st1 EXCEPT !.sorted_observations = srt1, !.n_lower = nl]
    IN
    IF HasData(st.observations) \/ ObjectiveMissing(inp)
    THEN Raise(st, "ValueError")                        \* lines 115-118
    ELSE IF \E k \in DOMAIN inp : ~CanIndex(inp[k], ord)
    THEN Raise(st1, "IndexError")                       \* line 122: observations[name][order]
    ELSE IF n = 0
    THEN Raise(st2, "ZeroDivisionError")                \* line 125: n_lower / 0
    ELSE Return([st2 EXCEPT !.percentile = Div(nl, n),
                            !.mvpe_lower = Built(lower_vals(srt1, nl)),
                            !.mvpe_upper = Built(upper_vals(srt1, nl))])

\* what the seed calls so far did to the fields:
\*   "none"        no seed call has changed a field
\*   "wellformed"  a seed returned normally, its input had every key and arrays of one length
\*   "malformed"   a seed returned normally on an input that lacked a key or whose
\*                 arrays differed in length
\*   "fault"       a seed raised after it had changed a field
SeedHistory(r, inp) ==
    IF seed_state = "fault" THEN "fault"
    ELSE IF r.err = "ok" THEN (IF WellFormed(inp) THEN "wellformed" ELSE "malformed")
    ELSE IF r.st # Self THEN "fault"
    ELSE seed_state

SeedCall(inp) ==
    \E r \in {apply_knowledge_augmentation(Self, inp)} :    \* the call, evaluated once
    /\ observations' = r.st.observations
    /\ sorted_observations' = r.st.sorted_observations
    /\ order' = r.st.order
    /\ n_lower' = r.st.n_lower
    /\ percentile' = r.st.percentile
    /\ mvpe_lower' = r.st.mvpe_lower
    /\ mvpe_upper' = r.st.mvpe_upper
    /\ last_op' = "seed"
    /\ last_args' = [objective |-> ObjectiveName \in DOMAIN inp,
                     dims |-> HpSet \subseteq DOMAIN inp]
    /\ outcome' = r.err
    /\ seed_state' = SeedHistory(r, inp)
    /\ seed_k' = IF r.err = "ok" THEN Len(r.st.observations[ObjectiveName]) ELSE seed_k
    /\ out' = NoOut
    /\ twin' = TwinAfter(apply_knowledge_augmentation(twin.st, inp))
    /\ UNCHANGED <<quantile, tie_policy, minimize, seed, rng, last_ll,
                   n_appended, append_fault>>

\* The first check (line 115) does not read the input: with data in the objective
\* column the call ends the same way for every input, and one input stands for
\* all of them.
EmptySeedInput == SeedInput(<<>>, <<"none", "none">>)

SeedFrom(inputs) ==
    IF HasData(observations)
    THEN SeedCall(EmptySeedInput)
    ELSE \E inp \in inputs : SeedCall(inp)

Seed == SeedFrom(SeedInputs)

\* ----------------------------------------------------------------- append
\* the loop over self._hp_names (base_tpe.py:150-153), from dimension i on
RECURSIVE HpLoop(_, _, _, _)
HpLoop(i, st, ord, cfg) ==
    IF i > Len(HpNames) THEN Return(st)
    ELSE LET hp == HpNames[i] IN
         IF hp \notin DOMAIN cfg
         THEN Raise(st, "KeyError")                     \* line 151: eval_config[hp_name]
         ELSE LET st1 == [st EXCEPT !.observations[hp] = NpAppend(@, cfg[hp])] IN
              IF ~CanIndex(st1.observations[hp], ord)
              THEN Raise(st1, "IndexError")             \* line 153: observations[hp][order]
              ELSE HpLoop(i + 1,
                          [st1 EXCEPT !.sorted_observations[hp] =
                                          Reorder(st1.observations[hp], ord)],
                          ord, cfg)

\* BaseTPE.update_observations(eval_config=cfg, results=(res, ...), runtime=rt),
\* on the fields st
update_observations(st, cfg, res, rt) ==
    IF ObjectiveName \notin DOMAIN res
    THEN Raise(st, "KeyError")          \* tpe.py:44, before self._order is assigned
    ELSE LET st0 == calculate_order(st, res)                    \* line 143
             ord == st0.order.vals
             \* lines 145-148
             st1 == [st0 EXCEPT !.observations[ObjectiveName] = NpAppend(@, res[ObjectiveName])]
             st2 == [st1 EXCEPT !.sorted_observations[ObjectiveName] =
                                    Reorder(st1.observations[ObjectiveName], ord)]
             hp == HpLoop(1, st2, ord, cfg)
             nl == percentile_func(hp.st.observations)
         IN IF hp.err # "ok" THEN hp
            ELSE \* the else clause of the loop, lines 155-158
                 Return([hp.st EXCEPT
                     !.n_lower = nl,
                     !.percentile = Div(nl, Len(hp.st.observations[ObjectiveName])),
                     !.mvpe_lower = Built(lower_vals(hp.st.sorted_observations, nl)),
                     !.mvpe_upper = Built(upper_vals(hp.st.sorted_observations, nl)),
                     !.observations[RuntimeName] = NpAppend(@, rt)])

AppendCall(cfg, res, rt) ==
    \E r \in {update_observations(Self, cfg, res, rt)} :    \* the call, evaluated once
    /\ observations' = r.st.observations
    /\ sorted_observations' = r.st.sorted_observations
    /\ order' = r.st.order
    /\ n_lower' = r.st.n_lower
    /\ percentile' = r.st.percentile
    /\ mvpe_lower' = r.st.mvpe_lower
    /\ mvpe_upper' = r.st.mvpe_upper
    /\ last_op' = "append"
    /\ last_args' = [objective |-> ObjectiveName \in DOMAIN res,
                     dims |-> HpSet \subseteq DOMAIN cfg]
    /\ outcome' = r.err
    /\ n_appended' = IF r.err = "ok" THEN n_appended + 1 ELSE n_appended
    /\ append_fault' = (append_fault \/ (r.err # "ok" /\ r.st # Self))
    /\ out' = NoOut
    /\ twin' = TwinAfter(update_observations(twin.st, cfg, res, TwinRuntime(rt)))
    /\ UNCHANGED <<quantile, tie_policy, minimize, seed, rng, last_ll,
                   seed_state, seed_k>>

\* appends are issued while the objective column is shorter than max
AppendUpTo(max) ==
    /\ Len(observations[ObjectiveName]) < max
    /\ \E cfg \in Configs, res \in Results, rt \in RtVals : AppendCall(cfg, res, rt)

AppendObs == AppendUpTo(MaxObs)

\* ------------------------------------------------------------- candidates
\* The joint density model is the external collaborator; it is deterministic:
\* what it returns is a function of the value arrays it was built from and of
\* the generator it is handed.

\* the elements of a set of numbers in ascending order
AscSeq(S) ==
    CHOOSE q \in [1..Cardinality(S) -> S] :
        \A i, j \in 1..Cardinality(S) : i < j => q[i] < q[j]

\* what a dimension's model can return: the values it was built from, then the
\* dimension's domain (the prior, all there is for an empty group)
Support(model, hp) == model[hp] \o AscSeq(ValsOf(hp))

DimIndex(hp) == CHOOSE i \in 1..Len(HpNames) : HpNames[i] = hp

\* MultiVariateParzenEstimator.sample(n_samples=n, rng=g, dim_independent=True,
\* return_dict=True): per dimension an array of n values, each taken with one
\* draw of the generator, which is left advanced by the draws made
sample(model, g, n) ==
    [cands |-> [hp \in HpSet |->
                   [j \in 1..n |->
                       LET k == (g + (DimIndex(hp) - 1) * n + (j - 1)) % RngPeriod
                           sup == Support(model, hp)
                       IN sup[(k % Len(sup)) + 1]]],
     rng |-> (g + Len(HpNames) * n) % RngPeriod]

\* a call that returned v
ReturnOut(st, v) == [st |-> st, err |-> "ok", out |-> v]
RaiseOut(st, e) == [st |-> st, err |-> e, out |-> NoOut]

\* candidates drawn from the prior while no model has been built
get_config_candidates_prior_fallback(st) ==
    LET model == IF st.mvpe_lower.set THEN st.mvpe_lower.vals ELSE [hp \in HpSet |-> <<>>]
        r == sample(model, st.rng, n_ei_candidates)
    IN ReturnOut([st EXCEPT !.rng = r.rng], [kind |-> "candidates", val |-> r.cands])

\* BaseTPE.get_config_candidates(), on the instance st
get_config_candidates(st) ==
    IF ~st.mvpe_lower.set
    THEN RaiseOut(st, "AttributeError")     \* line 191: self._mvpe_lower was never assigned
    ELSE LET r == sample(st.mvpe_lower.vals, st.rng, n_ei_candidates)
         IN ReturnOut([st EXCEPT !.rng = r.rng], [kind |-> "candidates", val |-> r.cands])

\* ------------------------------------------------------------------ score
\* Logarithms are kept in whole nats, rounded down: floor(ln(a / b)) for
\* 0 < a <= b, with e taken as 19/7.
RECURSIVE FloorLn(_, _)
FloorLn(a, b) == IF a >= b THEN 0 ELSE FloorLn(a * 19, b * 7) - 1

\* floor(ln(EPS)) for EPS = 1e-12 (line 235): ln(1e-12) = -27.63
LnEPS == 0 - 28

\* np.log(p + EPS) for a fraction p of [0, 1]: EPS shows only where p is 0
LogPlusEPS(p) == IF p[1] = 0 THEN LnEPS ELSE FloorLn(p[1], p[2])

Max(a, b) == IF a > b THEN a ELSE b

\* np.logaddexp(x, y) = max(x, y) + log1p(exp(-|x - y|)); the second term lies
\* in [0, ln 2], below the resolution of one nat
logaddexp(x, y) == Max(x, y)

\* the score that writes the guarded percentile back to the instance
compute_probability_improvement_clamping(st, ll) ==
    IF ~st.mvpe_lower.set \/ ~st.mvpe_upper.set
    THEN RaiseOut(st, "AttributeError")
    ELSE LET p == st.percentile
             first_term == LogPlusEPS(p)
             second_term == LogPlusEPS(<<p[2] - p[1], p[2]>>) + ll[2] - ll[1]
             clamped == IF p[1] = p[2] THEN <<p[2] * 1000 - 1, p[2] * 1000>> ELSE p
         IN ReturnOut([st EXCEPT !.percentile = clamped],
                      [kind |-> "score",
                       val |-> [j \in 1..n_ei_candidates |->
                                   0 - logaddexp(first_term, second_term)]])

\* BaseTPE.compute_probability_improvement(config_cands), on the instance st;
\* ll = <<ll_lower, ll_upper>> is what compute_config_loglikelihoods gets from
\* the two joint models for config_cands (lines 211-212), one value standing
\* for each array
compute_probability_improvement(st, ll) ==
    IF ~st.mvpe_lower.set \/ ~st.mvpe_upper.set
    THEN RaiseOut(st, "AttributeError")     \* lines 211-212
    ELSE LET p == st.percentile
             first_term == LogPlusEPS(p)                                          \* line 237
             second_term == LogPlusEPS(<<p[2] - p[1], p[2]>>) + ll[2] - ll[1]     \* line 238
         IN ReturnOut(st, [kind |-> "score",
                           val |-> [j \in 1..n_ei_candidates |->
                                       0 - logaddexp(first_term, second_term)]]) \* line 239

\* the log-densities <<ll_lower, ll_upper>> the collaborator may return for the
\* candidates of a call, in nats
LogDensities == {<<0, 0>>, <<0, 700>>}

\* ----------------------------------------------------------- observations
\* vals[-n:] for n >= 0: the last n values, but the whole array when n is 0
\* (-0 is 0) or exceeds the length
LastN(vals, n) ==
    IF n = 0 \/ n >= Len(vals) THEN vals ELSE SubSeq(vals, Len(vals) - n + 1, Len(vals))

\* BaseTPE.observations (the property), on the instance st
observations_copy(st) ==
    LET n_evals == Len(st.observations[ObjectiveName])         \* BaseTPE.size
    IN ReturnOut(st, [kind |-> "observations",
                      val |-> [k \in Keys |-> LastN(st.observations[k], n_evals)]])

\* ------------------------------------------------------------ read calls
\* a call `op` that ended as r on the first instance and as t on the second
ReadCall(op, r, t) ==
    /\ observations' = r.st.observations
    /\ sorted_observations' = r.st.sorted_observations
    /\ order' = r.st.order
    /\ n_lower' = r.st.n_lower
    /\ percentile' = r.st.percentile
    /\ mvpe_lower' = r.st.mvpe_lower
    /\ mvpe_upper' = r.st.mvpe_upper
    /\ rng' = r.st.rng
    /\ last_op' = op
    /\ last_args' = [objective |-> TRUE, dims |-> TRUE]
    /\ outcome' = r.err
    /\ out' = r.out
    /\ twin' = t
    /\ UNCHANGED <<quantile, tie_policy, minimize, seed, seed_state, seed_k,
                   n_appended, append_fault>>

GetCandidates ==
    \E r \in {get_config_candidates(Self)}, t \in {get_config_candidates(twin.st)} :
        /\ ReadCall("candidates", r, t)
        /\ last_ll' = <<0, 0>>

\* the two instances are given the same candidates; the collaborator returns
\* the same log-densities for them where the joint models are the same
Score ==
    \E ll, ll2 \in LogDensities :
        /\ (twin.st.mvpe_lower = mvpe_lower /\ twin.st.mvpe_upper = mvpe_upper) => ll2 = ll
        /\ \E r \in {compute_probability_improvement(Self, ll)},
              t \in {compute_probability_improvement(twin.st, ll2)} :
              /\ ReadCall("score", r, t)
              /\ last_ll' = IF r.err = "ok" THEN ll ELSE <<0, 0>>

Observe ==
    \E r \in {observations_copy(Self)}, t \in {observations_copy(twin.st)} :
        /\ ReadCall("observations", r, t)
        /\ last_ll' = <<0, 0>>

Next == Seed \/ AppendObs

Spec == Init /\ [][Next]_vars

\* The read calls between the mutators, on histories one observation shorter.
SeedShort == SeedFrom(SeedInputsShort)
AppendShort == AppendUpTo(MaxObs - 1)
NextRead == SeedShort \/ AppendShort \/ GetCandidates \/ Score \/ Observe

SpecRead == Init /\ [][NextRead]_vars

\* Two instances constructed with the same seed argument, an int or None, and
\* given the same seed, append, candidate and score calls.
SeedArgs == {<<0>>, <<>>}
InitReplay == Constructed(SeedArgs)
SeedBrief == SeedFrom(SeedInputsBrief)
AppendBrief == AppendUpTo(MaxObs - 2)
NextReplay == SeedBrief \/ AppendBrief \/ GetCandidates \/ Score

SpecReplay == InitReplay /\ [][NextReplay]_vars

\* ================================================================ properties
n_observations == Len(observations[ObjectiveName])

\* every raw column is as long as the objective column
Aligned == \A k \in Keys : Len(observations[k]) = n_observations

\* the sorted view of column k is the raw column reordered by the stored order
SortedByOrder(k) ==
    /\ order.set
    /\ CanIndex(observations[k], order.vals)
    /\ sorted_observations[k] = Reorder(observations[k], order.vals)

\* C1: from a fresh instance, in a history of append calls only, every raw column
\* (each dimension, the objective, the runtime) has the same length after every
\* append call.
C1_AppendsKeepColumnsAligned ==
    (seed_state = "none" /\ seed_k = -1 /\ last_op = "append") => Aligned

\* C2: once a seed has returned without error, after it and after every append
\* that follows, every raw column has the same length.
C2_SeedKeepsColumnsAligned ==
    (seed_k >= 0 /\ last_op \in {"seed", "append"}) => Aligned

\* C3: after every append that returned normally, the sorted view of every
\* column, runtime included, is the raw column reordered by the order just computed.
C3_AppendRefreshesEverySortedColumn ==
    (last_op = "append" /\ outcome = "ok") => \A k \in Keys : SortedByOrder(k)

\* C4: the stored order is a stable ascending sort of the objective column: values
\* ascend along it, and of two observations with the same objective value the
\* one inserted earlier comes first.
C4_RankingIsStable ==
    order.set =>
        LET ord == order.vals
            loss == observations[ObjectiveName] IN
        /\ Len(ord) = Len(loss)
        /\ \A a, b \in 1..Len(ord) :
              a < b => /\ loss[ord[a]] <= loss[ord[b]]
                       /\ loss[ord[a]] = loss[ord[b]] => ord[a] < ord[b]

\* C5: after every seed or append that leaves at least one observation,
\* 0 <= _n_lower <= n_observations and _percentile = _n_lower / n_observations,
\* n_observations being the current length of the objective column.
C5_BoundaryMatchesCount ==
    (last_op \in {"seed", "append"} /\ n_observations >= 1) =>
        /\ 0 <= n_lower
        /\ n_lower <= n_observations
        /\ RatEq(percentile, <<n_lower, n_observations>>)

\* C6: a seed call made while the objective column holds data ends in the
\* precondition error (ValueError) and changes no raw column, no sorted column,
\* neither _n_lower nor _percentile (nor any other field).
C6_SecondSeedRejected ==
    [][(last_op' = "seed" /\ Len(observations[ObjectiveName]) > 0)
          => (outcome' = "ValueError" /\ UNCHANGED store)]_vars

\* a seed was rejected on a store that appends had filled
C6_Witness ==
    /\ last_op = "seed" /\ outcome = "ValueError"
    /\ n_observations > 0 /\ n_appended > 0

\* C7: a seed call on a store with an empty objective column whose input lacks
\* the objective ends in the precondition error (ValueError) and changes no field.
C7_SeedWithoutObjectiveRejected ==
    [][(last_op' = "seed" /\ Len(observations[ObjectiveName]) = 0 /\ ~last_args'.objective)
          => (outcome' = "ValueError" /\ UNCHANGED store)]_vars

\* a seed without the objective was rejected on an empty store
C7_Witness ==
    /\ last_op = "seed" /\ ~last_args.objective /\ outcome = "ValueError"
    /\ n_observations = 0

\* C8: an append whose config lacks a dimension, or whose result lacks the
\* objective, is rejected and leaves every raw column and every sorted column
\* as it was.
C8_BadAppendChangesNothing ==
    [][(last_op' = "append" /\ (~last_args'.dims \/ ~last_args'.objective))
          => /\ outcome' # "ok"
             /\ observations' = observations
             /\ sorted_observations' = sorted_observations]_vars

\* the rows of the raw store, in insertion order (the columns being aligned)
StoredRows == [i \in 1..n_observations |-> [k \in Keys |-> observations[k][i]]]

\* the fields after appending rows i.. one by one, starting from the fields st
RECURSIVE AppendAll(_, _, _)
AppendAll(st, rows, i) ==
    IF i > Len(rows) THEN st
    ELSE AppendAll(update_observations(st,
                       [hp \in HpSet |-> rows[i][hp]],
                       [o \in {ObjectiveName} |-> rows[i][o]],
                       rows[i][RuntimeName]).st,
                   rows, i + 1)

\* a well-formed seed of seed_k observations, then n_appended >= 1 appends that
\* returned normally, and no call that raised after changing a field
SeededThenAppended ==
    seed_state = "wellformed" /\ ~append_fault /\ n_appended >= 1

\* C9: seeding k observations and appending m gives n_observations = k + m and
\* the order and the sorted view that appending the same k + m observations one
\* by one to a fresh store gives.
C9_SeedThenAppendEqualsAppendOnly ==
    SeededThenAppended =>
        /\ n_observations = seed_k + n_appended
        /\ Aligned
        /\ LET r == AppendAll(Fresh, StoredRows, 1) IN
           /\ order = r.order
           /\ sorted_observations = r.sorted_observations

\* successful appends only (after no seed or a well-formed one)
OnlyGoodAppends ==
    seed_state \in {"none", "wellformed"} /\ ~append_fault /\ n_appended >= 1

\* C10: after successful appends the lower group handed to the density builder
\* is, per dimension, the values of the _n_lower observations first in the order,
\* the upper group the values of the other n_observations - _n_lower; the order
\* names every observation once, and no lower-group objective value exceeds an
\* upper-group one.
C10_GroupsSplitAtNLower ==
    OnlyGoodAppends =>
        LET ord == order.vals
            n == n_observations
            loss == observations[ObjectiveName] IN
        /\ order.set /\ mvpe_lower.set /\ mvpe_upper.set
        /\ Len(ord) = n
        /\ {ord[i] : i \in 1..n} = 1..n
        /\ 0 <= n_lower /\ n_lower <= n
        /\ \A hp \in HpSet :
              /\ Len(observations[hp]) = n
              /\ mvpe_lower.vals[hp] = [i \in 1..n_lower |-> observations[hp][ord[i]]]
              /\ mvpe_upper.vals[hp] =
                     [i \in 1..(n - n_lower) |-> observations[hp][ord[n_lower + i]]]
        /\ \A i \in 1..n_lower : \A j \in (n_lower + 1)..n : loss[ord[i]] <= loss[ord[j]]

\* three appends, both groups non-empty, and the order is not the insertion order
C10_Witness ==
    /\ OnlyGoodAppends /\ seed_state = "none" /\ last_op = "append" /\ outcome = "ok"
    /\ n_observations = 3 /\ n_lower = 2
    /\ order.vals # <<1, 2, 3>>
    /\ observations["x"] # sorted_observations["x"]

\* ------------------------------------------------- the group boundary, again
\* C14: a seed or an append that returned normally leaves
\* _n_lower = ceil(quantile * n), n being the length of the objective column
\* after the call, the observation just appended included.
C14_BoundaryFromCurrentCount ==
    (last_op \in {"seed", "append"} /\ outcome = "ok") =>
        n_lower = CeilMul(quantile, n_observations)

\* the third append at quantile 1/2: ceil(3/2) = 2, where the count before the
\* append gives ceil(2/2) = 1
C14_Witness ==
    /\ last_op = "append" /\ outcome = "ok" /\ seed_state = "none"
    /\ quantile = <<1, 2>> /\ n_observations = 3 /\ n_lower = 2

\* C15: a seed call that ends in an error, the division fault on an empty
\* objective column included, leaves every raw column, every sorted column,
\* _n_lower and _percentile as they were before the call.
C15_FailedSeedChangesNothing ==
    [][(last_op' = "seed" /\ outcome' # "ok")
          => UNCHANGED <<observations, sorted_observations, n_lower, percentile>>]_vars

\* C16: in a state a successful append has left, computing the order for a next
\* candidate result changes no field of the instance.
C16_OrderComputationChangesNothing ==
    (last_op = "append" /\ outcome = "ok") =>
        \A res \in Results :
            ObjectiveName \in DOMAIN res => calculate_order(Self, res) = Self

\* ------------------------------------------------------- the second instance
\* the columns the ranking and the groups are made of
RankedKeys == HpSet \cup {ObjectiveName}

\* C17: the runtime values are no ranking signal: the second instance, whose
\* appends were given other runtime values, has the same order, the same sorted
\* dimension and objective columns, the same _n_lower and _percentile, and was
\* handed the same lower and upper value arrays; its calls ended as the first's.
C17_RuntimeIsNotARankingSignal ==
    /\ twin.err = outcome
    /\ twin.st.order = order
    /\ \A k \in RankedKeys :
          /\ twin.st.observations[k] = observations[k]
          /\ twin.st.sorted_observations[k] = sorted_observations[k]
    /\ twin.st.n_lower = n_lower
    /\ twin.st.percentile = percentile
    /\ twin.st.mvpe_lower = mvpe_lower
    /\ twin.st.mvpe_upper = mvpe_upper

\* two appends went through, the two runtime columns differ in every entry, and
\* the order is not the insertion order
C17_Witness ==
    /\ last_op = "append" /\ outcome = "ok" /\ seed_state = "none" /\ n_appended = 2
    /\ Len(observations[RuntimeName]) = 2
    /\ Len(twin.st.observations[RuntimeName]) = 2
    /\ \A i \in 1..2 : twin.st.observations[RuntimeName][i] # observations[RuntimeName][i]
    /\ order.vals = <<2, 1>>

\* C20: the ranking ignores minimize: after every call the instance constructed
\* with minimize False has the order of the one constructed with minimize True,
\* which ascends by the raw objective value, and the same sorted view, _n_lower
\* and lower and upper groups.
C20_RankingIgnoresMinimize ==
    (minimize /\ ~twin.st.minimize) =>
        /\ twin.st.order = order
        /\ twin.st.sorted_observations = sorted_observations
        /\ twin.st.n_lower = n_lower
        /\ twin.st.mvpe_lower = mvpe_lower
        /\ twin.st.mvpe_upper = mvpe_upper
        /\ order.set =>
              LET loss == twin.st.observations[ObjectiveName] IN
              /\ Len(order.vals) = Len(loss)
              /\ \A a, b \in 1..Len(loss) :
                    a < b => loss[twin.st.order.vals[a]] <= loss[twin.st.order.vals[b]]

\* the not-minimized instance holds two different objective values, the smaller
\* one appended last and ranked first
C20_Witness ==
    /\ ~twin.st.minimize /\ twin.err = "ok" /\ last_op = "append" /\ outcome = "ok"
    /\ twin.st.observations[ObjectiveName] = <<1, 0>>
    /\ twin.st.order = Built(<<2, 1>>)
    /\ twin.st.sorted_observations[ObjectiveName] = <<0, 1>>

C12_SnapshotHoldsLastNOfEveryColumn ==
    last_op = "observations" =>
        /\ outcome = "ok"
        /\ out.kind = "observations"
        /\ \A k \in Keys :
              LET col == observations[k] IN
              /\ Len(out.val[k]) = n_observations
              /\ \A i \in 1..n_observations :
                    out.val[k][i] = col[Len(col) - n_observations + i]

\* -log(p + (1 - p) * exp(d)) in whole nats, without EPS: a term whose weight is
\* 0 is absent from the sum
ClosedForm(p, d) ==
    IF p[1] = 0 THEN 0 - d
    ELSE IF p[1] = p[2] THEN 0
    ELSE 0 - Max(FloorLn(p[1], p[2]), FloorLn(p[2] - p[1], p[2]) + d)

\* C13: for percentile p, ll_lower a and ll_upper b the score returned equals
\* -log(p + (1 - p) * exp(b - a)).  Both sides are in whole nats, each within
\* two nats of the real value, so a difference of four or more is one no
\* floating tolerance covers.
C13_ScoreEqualsClosedForm ==
    (last_op = "score" /\ outcome = "ok") =>
        \A j \in 1..Len(out.val) :
            LET diff == out.val[j] - ClosedForm(percentile, last_ll[2] - last_ll[1])
            IN -4 < diff /\ diff < 4

\* C18: a score call changes no field of the instance; a candidate call changes
\* none but the generator: raw columns, sorted view, _order, _n_lower,
\* _percentile and the two joint models are as before.
C18_ReadsLeaveObservationStateAlone ==
    [][/\ last_op' = "score" => UNCHANGED <<store, rng>>
       /\ last_op' = "candidates" => UNCHANGED store]_vars

\* candidates were drawn from the models of two observations, and the generator
\* has moved
C18_Witness ==
    /\ last_op = "candidates" /\ outcome = "ok" /\ out.kind = "candidates"
    /\ n_observations = 2 /\ mvpe_lower.set
    /\ rng # 0

\* C19: while no seed and no append has returned normally, a candidate or score
\* call ends in an error, returns nothing and changes no field; once one has,
\* both calls return their result.
C19_ModelsExistOnlyAfterFirstSuccess ==
    [][last_op' \in {"candidates", "score"} =>
          IF seed_k = -1 /\ n_appended = 0
          THEN outcome' = "AttributeError" /\ out' = NoOut /\ UNCHANGED <<store, rng>>
          ELSE outcome' = "ok" /\ out'.kind = last_op']_vars

\* a score was refused on an instance that only a failed append has touched
C19_Witness ==
    /\ last_op = "score" /\ outcome = "AttributeError" /\ out = NoOut
    /\ seed_k = -1 /\ n_appended = 0 /\ append_fault
    /\ ~mvpe_lower.set

====
